---- MODULE Spec2Model ----
(***************************************************************************)
(* TravelKit group formation: the store (interests, groups, member         *)
(* confirmations), the Celery timers, and the operations of the clustering *)
(* jobs, the group formation workflow and the admin group service.         *)
(*                                                                         *)
(* Conventions.  Time is counted in hours.  Rates are in percent, prices   *)
(* are integers.  The ORM rows are records; a Python None is the value     *)
(* None.  An operation that raises and rolls back leaves the store         *)
(* unchanged and records res = "raised" in lastOp.  The Notifier and       *)
(* Payments                                                                *)
(* ports are modelled by their results: a notification is counted in       *)
(* lastOp.notified, a refund in lastOp.refunds.                            *)
(***************************************************************************)
EXTENDS Integers, Sequences, FiniteSets, TLC

VARIABLES
    interests,      \* Interest rows: id -> [status, group_id]; "absent" before creation
    groups,         \* Group rows, index = id
    confs,          \* GroupMemberConfirmation rows, index = id = token
    timers,         \* Celery tasks scheduled with an eta
    now,            \* datetime.utcnow(), in hours
    max_discount,   \* Destination.max_discount of the one destination, percent
    calls,          \* number of admin calls and of member replies made so far
    lastOp,         \* the last operation, its arguments and its outputs
    running         \* the sweep that has read its rows and not yet written them

vars == <<interests, groups, confs, timers, now, max_discount, calls, lastOp, running>>

store == <<interests, groups, confs>>

(***************************************************************************)
(* Bounds of the exploration.                                              *)
(***************************************************************************)
NumInterests == 4
MaxGroups == 1
MaxConfs == 4
MaxTime == 180
MaxAdminCalls == 2
MaxReplies == 2
MaxAccepts == 4
MaxOverlappingGroups == 2
MaxFormingGroups == 3

Interests == 1..NumInterests

None == 0 - 1

(***************************************************************************)
(* Program constants.                                                      *)
(***************************************************************************)
HoursPerDay == 24
confirmation_deadline_days == 7
ReminderLeadDays == 2
DeadlineCheckDelayHours == 1
AutoFinalizeDelayHours == 6
ClusterMinGroupSize == 4
ClusterMaxGroupSize == 20
WindowPastDays == 7
WindowFutureDays == 60
ConfigMaxDiscount == 25
DestinationBasePrice == 40000
SimulatedDeadlineDays == 3
DiscountCaps == {3}

ConfirmationWindow == confirmation_deadline_days * HoursPerDay

(***************************************************************************)
(* Interest attributes (the rows submitted by the travelers).              *)
(***************************************************************************)
num_people(i) == IF i = 1 THEN 2 ELSE 1
date_from(i) == (20 + (i % 2)) * HoursPerDay
date_to(i) == (26 + (i % 2)) * HoursPerDay
budget_min(i) == None
budget_max(i) == None

Min(a, b) == IF a < b THEN a ELSE b
Max(a, b) == IF a > b THEN a ELSE b
Abs(a) == IF a < 0 THEN 0 - a ELSE a

SetMin(S) == CHOOSE x \in S : \A y \in S : x <= y
SetMax(S) == CHOOSE x \in S : \A y \in S : x >= y

RECURSIVE SumOver(_, _)
SumOver(S, f) ==
    IF S = {} THEN 0
    ELSE LET x == CHOOSE y \in S : TRUE IN f[x] + SumOver(S \ {x}, f)

(***************************************************************************)
(* Compatibility scorer, in thousandths.                                   *)
(***************************************************************************)
Days(h) == h \div HoursPerDay

\* the attributes of interest i as one row
Row(i) ==
    [num_people |-> num_people(i), date_from |-> date_from(i), date_to |-> date_to(i),
     budget_min |-> budget_min(i), budget_max |-> budget_max(i)]

date_overlap(interest1, interest2) ==
    LET overlap_start == Max(interest1.date_from, interest2.date_from)
        overlap_end == Min(interest1.date_to, interest2.date_to)
        overlap_days == Days(overlap_end - overlap_start) + 1
        total_days == Max(Days(interest1.date_to - interest1.date_from) + 1,
                          Days(interest2.date_to - interest2.date_from) + 1)
    IN  IF overlap_start > overlap_end THEN 0
        ELSE Min((overlap_days * 1000) \div total_days, 1000)

size_compatibility(interest1, interest2) ==
    LET size1 == interest1.num_people
        size2 == interest2.num_people
    IN  IF size1 = size2 THEN 1000
        ELSE IF Min(size1, size2) * 10 >= 7 * Max(size1, size2) THEN 1000
        ELSE IF Min(size1, size2) * 10 >= 5 * Max(size1, size2) THEN 700
        ELSE 300

Truthy(x) == x # None /\ x # 0

budget_compatibility(interest1, interest2) ==
    IF ~(Truthy(interest1.budget_max) /\ Truthy(interest2.budget_max)) THEN 800
    ELSE LET b1min == IF Truthy(interest1.budget_min) THEN interest1.budget_min ELSE 0
             b2min == IF Truthy(interest2.budget_min) THEN interest2.budget_min ELSE 0
             overlap_min == Max(b1min, b2min)
             overlap_max == Min(interest1.budget_max, interest2.budget_max)
             range1 == interest1.budget_max - b1min
             range2 == interest2.budget_max - b2min
             max_range == Max(range1, range2)
         IN  IF overlap_min > overlap_max THEN 0
             ELSE IF max_range = 0 THEN 1000
             ELSE Min(((overlap_max - overlap_min) * 1000) \div max_range, 1000)

\* t: datetime.now(timezone.utc)
lead_time_compatibility(interest1, interest2, t) ==
    LET diff == Abs(Days(interest1.date_from - t) - Days(interest2.date_from - t))
    IN  IF diff <= 7 THEN 1000
        ELSE IF diff <= 14 THEN 800
        ELSE IF diff <= 30 THEN 600
        ELSE 300

compatibility(interest1, interest2, t) ==
    (400 * date_overlap(interest1, interest2)
     + 250 * size_compatibility(interest1, interest2)
     + 200 * budget_compatibility(interest1, interest2)
     + 150 * lead_time_compatibility(interest1, interest2, t)) \div 1000

_calculate_date_overlap(a, b) == date_overlap(Row(a), Row(b))

_calculate_size_compatibility(a, b) == size_compatibility(Row(a), Row(b))

_calculate_budget_compatibility(a, b) == budget_compatibility(Row(a), Row(b))

_calculate_lead_time_compatibility(a, b) == lead_time_compatibility(Row(a), Row(b), now)

_calculate_compatibility(a, b) == compatibility(Row(a), Row(b), now)

(***************************************************************************)
(* Pricers.                                                                *)
(***************************************************************************)
TierRate(n) ==
    IF n >= 16 THEN 25
    ELSE IF n >= 13 THEN 20
    ELSE IF n >= 10 THEN 15
    ELSE IF n >= 7 THEN 10
    ELSE IF n >= 4 THEN 5
    ELSE 0

\* the discount amount added to the base price instead of subtracted
group_pricing_DiscountAdded(base_price, cap, members_count) ==
    LET discount_rate == Min(TierRate(members_count), cap)
    IN  base_price + (base_price * discount_rate) \div 100

\* tasks._calculate_group_pricing for a destination with the given base_price
\* and max_discount (cap)
group_pricing(base_price, cap, members_count) ==
    LET discount_rate == Min(TierRate(members_count), cap)
    IN  base_price - (base_price * discount_rate) \div 100

\* tasks._calculate_group_pricing: tier of the number of interests, capped by
\* the destination's max_discount
_calculate_group_pricing(members_count) ==
    group_pricing(DestinationBasePrice, max_discount, members_count)

\* GroupFormationWorkflow._recalculate_group_pricing: tier of current_size,
\* capped by the configured pricing.max_discount
_recalculate_group_pricing(group) ==
    LET discount_rate == Min(TierRate(group.current_size), ConfigMaxDiscount)
    IN  (group.base_price * (100 - discount_rate)) \div 100

\* GroupService._calculate_group_pricing: 3 % per member after the first
GroupService_calculate_group_pricing(base_price, current_size) ==
    IF current_size <= 1 THEN base_price
    ELSE (base_price * (100 - Min(25, 3 * (current_size - 1)))) \div 100

(***************************************************************************)
(* The session: the rows an operation works on, the tasks it has           *)
(* scheduled and the port calls it has made.  Operations are functions     *)
(* from a session to a session; an action commits the session it ends in.  *)
(***************************************************************************)
Session ==
    [interests |-> interests, groups |-> groups, confs |-> confs,
     timers |-> timers, notified |-> 0, refunds |-> 0, res |-> "ok"]

\* an exception caught by a handler that rolls back: the rows are those of the
\* last commit d0; what was scheduled or sent stays scheduled or sent
Rollback(d0, d) ==
    [d0 EXCEPT !.timers = d.timers, !.notified = d.notified,
               !.refunds = d.refunds, !.res = "raised"]

GroupIds(d) == 1..Len(d.groups)
ConfIds(d) == 1..Len(d.confs)
MembersOf(d, g) == {i \in DOMAIN d.interests : d.interests[i].group_id = g}
ConfsOf(d, g) == {k \in ConfIds(d) : d.confs[k].group_id = g}
confirmed_count(d, g) == Cardinality({k \in ConfsOf(d, g) : d.confs[k].confirmed = "true"})
declined_count(d, g) == Cardinality({k \in ConfsOf(d, g) : d.confs[k].confirmed = "false"})
pending_count(d, g) == Cardinality({k \in ConfsOf(d, g) : d.confs[k].confirmed = "null"})

RECURSIVE SetToSeq(_)
SetToSeq(S) ==
    IF S = {} THEN <<>>
    ELSE LET x == SetMin(S) IN <<x>> \o SetToSeq(S \ {x})

Release(rows, S) ==
    [i \in DOMAIN rows |->
        IF i \in S THEN [status |-> "open", group_id |-> None] ELSE rows[i]]

(***************************************************************************)
(* InterestService                                                         *)
(***************************************************************************)
create_interest(d, i) ==
    [d EXCEPT !.interests[i] = [status |-> "open", group_id |-> None]]

update_interest_status(d, i, status) ==
    [d EXCEPT !.interests[i].status = status]

(***************************************************************************)
(* Clustering job                                                          *)
(***************************************************************************)
RECURSIVE _rule_based_clustering(_, _, _)
_rule_based_clustering(all, rest, used) ==
    IF rest = <<>> THEN <<>>
    ELSE LET interest == Head(rest)
         IN  IF interest \in used
             THEN _rule_based_clustering(all, Tail(rest), used)
             ELSE LET cluster ==
                          {interest} \cup
                          {other \in all \ (used \cup {interest}) :
                              _calculate_compatibility(interest, other) > 300}
                      kept == IF Cardinality(cluster) >= 2 THEN <<cluster>> ELSE <<>>
                  IN  kept \o _rule_based_clustering(all, Tail(rest), used \cup cluster)

_create_group_from_cluster(d, cluster) ==
    LET n == Cardinality(cluster)
        id == Len(d.groups) + 1
        group == [status |-> "forming",
                  date_from |-> SetMin({date_from(i) : i \in cluster}),
                  date_to |-> SetMax({date_to(i) : i \in cluster}),
                  min_size |-> Max(ClusterMinGroupSize, n),
                  max_size |-> Min(ClusterMaxGroupSize, n * 2),
                  current_size |-> n,
                  base_price |-> DestinationBasePrice,
                  final_price_per_person |-> _calculate_group_pricing(n),
                  confirmation_deadline |-> None]
    IN  [d EXCEPT !.groups = Append(@, group),
                  !.interests = [i \in DOMAIN @ |->
                      IF i \in cluster THEN [status |-> "matched", group_id |-> id]
                      ELSE @[i]],
                  !.notified = @ + n]

RECURSIVE CreateGroups(_, _)
CreateGroups(d, clusters) ==
    IF clusters = <<>> THEN d
    ELSE CreateGroups(_create_group_from_cluster(d, Head(clusters)), Tail(clusters))

OpenInWindow(d) ==
    {i \in DOMAIN d.interests :
        /\ d.interests[i].status = "open"
        /\ date_from(i) >= now - WindowPastDays * HoursPerDay
        /\ date_from(i) <= now + WindowFutureDays * HoursPerDay}

Clusters(d) ==
    IF Cardinality(OpenInWindow(d)) < 2 THEN <<>>
    ELSE _rule_based_clustering(OpenInWindow(d), SetToSeq(OpenInWindow(d)), {})

cluster_interests(d) == CreateGroups(d, Clusters(d))

(***************************************************************************)
(* GroupService (admin operations)                                         *)
(***************************************************************************)
confirm_group(d, g) ==
    IF d.groups[g].current_size < d.groups[g].min_size
    THEN [d EXCEPT !.res = "insufficient"]
    ELSE [d EXCEPT !.groups[g].status = "confirmed"]

cancel_group(d, g) ==
    [d EXCEPT !.groups[g].status = "cancelled",
              !.groups[g].current_size = 0,
              !.interests = Release(@, MembersOf(d, g))]

add_interest_to_group(d, g, i) ==
    IF d.groups[g].current_size >= d.groups[g].max_size
    THEN [d EXCEPT !.res = "full"]
    ELSE LET size == d.groups[g].current_size + num_people(i)
         IN  [d EXCEPT !.interests[i] = [status |-> "matched", group_id |-> g],
                       !.groups[g].current_size = size,
                       !.groups[g].final_price_per_person =
                           GroupService_calculate_group_pricing(d.groups[g].base_price, size),
                       !.groups[g].status =
                           IF size >= d.groups[g].max_size THEN "full" ELSE @]

remove_interest_from_group(d, g, i) ==
    IF d.interests[i].group_id # g
    THEN [d EXCEPT !.res = "not_in_group"]
    ELSE LET size == d.groups[g].current_size - num_people(i)
         IN  [d EXCEPT !.interests[i] = [status |-> "open", group_id |-> None],
                       !.groups[g].current_size = size,
                       !.groups[g].final_price_per_person =
                           GroupService_calculate_group_pricing(d.groups[g].base_price, size),
                       !.groups[g].status =
                           IF @ = "full" /\ size < d.groups[g].max_size
                           THEN (IF size < d.groups[g].min_size THEN "forming" ELSE "confirmed")
                           ELSE @]

\* update_group with update_data = {"confirmation_deadline": deadline}
update_group(d, g, deadline) ==
    [d EXCEPT !.groups[g].confirmation_deadline = deadline]

\* update_group with update_data = {"min_size": min_size}
update_group_min_size(d, g, min_size) ==
    [d EXCEPT !.groups[g].min_size = min_size]

\* update_group with update_data = {"max_size": max_size}
update_group_max_size(d, g, max_size) ==
    [d EXCEPT !.groups[g].max_size = max_size]

(***************************************************************************)
(* GroupFormationWorkflow                                                  *)
(***************************************************************************)
NewConfirmation(g, i) ==
    [group_id |-> g, interest_id |-> i, confirmed |-> "null", status |-> "pending",
     payment_status |-> "none", payment_intent_id |-> None,
     expires_at |-> now + ConfirmationWindow]

RECURSIVE _create_member_confirmations(_, _, _)
_create_member_confirmations(d, g, members) ==
    IF members = <<>> THEN d
    ELSE _create_member_confirmations(
             [d EXCEPT !.confs = Append(@, NewConfirmation(g, Head(members)))],
             g, Tail(members))

_schedule_group_lifecycle_tasks(d, g) ==
    LET deadline == d.groups[g].confirmation_deadline
    IN  [d EXCEPT !.timers = @ \cup
            {[task |-> "send_group_reminder_notification", g |-> g,
              eta |-> deadline - ReminderLeadDays * HoursPerDay],
             [task |-> "check_group_confirmation_deadline", g |-> g,
              eta |-> deadline + DeadlineCheckDelayHours],
             [task |-> "finalize_group_formation", g |-> g,
              eta |-> deadline + AutoFinalizeDelayHours]}]

initiate_group_formation(d, g) ==
    LET d1 == _create_member_confirmations(d, g, SetToSeq(MembersOf(d, g)))
        \* _send_group_formation_notifications formats group.confirmation_deadline
        \* for every confirmation of the group
        d2 == [d1 EXCEPT !.notified = @ + Cardinality(ConfsOf(d1, g))]
        d3 == _schedule_group_lifecycle_tasks(d2, g)
    IN  IF d.groups[g].confirmation_deadline = None
        THEN Rollback(d, d)
        ELSE [d3 EXCEPT !.groups[g].status = "pending_confirmation",
                        !.groups[g].confirmation_deadline = now + ConfirmationWindow]

\* _evaluate_group_status compares utcnow() with group.confirmation_deadline
EvaluateRaises(d, g) == d.groups[g].confirmation_deadline = None

min_size_met(d, g) == confirmed_count(d, g) >= d.groups[g].min_size
deadline_passed(d, g) == now > d.groups[g].confirmation_deadline
can_proceed(d, g) == min_size_met(d, g) /\ pending_count(d, g) <= 2

\* query(...).first() over the confirmations ks
FirstConf(ks) == IF ks = {} THEN None ELSE SetMin(ks)

\* paid: the outcome of PaymentService.process_payment (succeeded or failed)
process_member_confirmation(d, g, i, confirmed, payment_intent_id, paid) ==
    LET k == FirstConf({j \in ConfsOf(d, g) : d.confs[j].interest_id = i})
    IN  IF k = None THEN Rollback(d, d)
        ELSE LET d1 == IF confirmed
                       THEN [d EXCEPT !.confs[k].confirmed = "true",
                                      !.confs[k].payment_intent_id = payment_intent_id,
                                      !.confs[k].status = "confirmed",
                                      !.confs[k].payment_status =
                                          IF payment_intent_id = None THEN @
                                          ELSE IF paid THEN "paid" ELSE "failed",
                                      !.interests[i].status = "confirmed"]
                       ELSE [d EXCEPT !.confs[k].confirmed = "false",
                                      !.confs[k].payment_intent_id = payment_intent_id,
                                      !.confs[k].status = "declined",
                                      !.interests[i].status = "declined"]
             IN  \* the commit precedes _evaluate_group_status
                 IF EvaluateRaises(d1, g) THEN [d1 EXCEPT !.res = "raised"] ELSE d1

_handle_declined_members(d, g) ==
    LET declined == {k \in ConfsOf(d, g) :
                        \/ d.confs[k].confirmed = "false"
                        \/ d.confs[k].confirmed = "null" /\ now > d.confs[k].expires_at}
    IN  [d EXCEPT !.interests = Release(@, {d.confs[k].interest_id : k \in declined}),
                  !.notified = @ + Cardinality(declined)]

_process_group_cancellation_refunds(d, g) ==
    LET paid == {k \in ConfsOf(d, g) : d.confs[k].payment_status = "paid"}
    IN  [d EXCEPT !.confs = [k \in ConfIds(d) |->
                      IF k \in paid THEN [@[k] EXCEPT !.payment_status = "refunded"]
                      ELSE @[k]],
                  !.refunds = @ + Cardinality(paid)]

finalize_group_formation(d, g, force) ==
    LET group == d.groups[g]
        c == confirmed_count(d, g)
        \* the deadline is read only when the disjuncts before it are false
        reads_deadline == c >= group.min_size /\ pending_count(d, g) # 0 /\ ~force
        can_finalize ==
            c >= group.min_size /\
            (pending_count(d, g) = 0 \/ force \/ now > group.confirmation_deadline)
    IN  IF reads_deadline /\ group.confirmation_deadline = None THEN Rollback(d, d)
        ELSE IF ~can_finalize /\ ~force THEN [d EXCEPT !.res = "cannot_finalize"]
        ELSE IF c >= group.min_size
        THEN LET d1 == [d EXCEPT !.groups[g].current_size = c,
                                 !.groups[g].status = "confirmed",
                                 !.groups[g].final_price_per_person =
                                     _recalculate_group_pricing([group EXCEPT !.current_size = c]),
                                 !.notified = @ + c,
                                 !.res = "finalized_confirmed"]
             IN  _handle_declined_members(d1, g)
        ELSE LET d1 == [d EXCEPT !.groups[g].current_size = c,
                                 !.groups[g].status = "cancelled_insufficient_members",
                                 !.res = "finalized_cancelled"]
                 d2 == _process_group_cancellation_refunds(d1, g)
             IN  [d2 EXCEPT !.notified = @ + Cardinality(ConfsOf(d, g))]

(***************************************************************************)
(* Workflow tasks                                                          *)
(***************************************************************************)
check_group_confirmation_deadline(d, g) ==
    IF d.groups[g].status \notin {"pending_confirmation", "forming"}
    THEN [d EXCEPT !.res = "skipped"]
    ELSE IF d.groups[g].confirmation_deadline = None THEN Rollback(d, d)
    ELSE IF ~deadline_passed(d, g) THEN [d EXCEPT !.res = "not_due"]
    ELSE IF min_size_met(d, g) THEN finalize_group_formation(d, g, TRUE)
    ELSE cancel_group(d, g)

\* a finalize_group_formation.delay(group_id) issued by the webhook
FinalizeNow(g) == [task |-> "finalize_group_formation", g |-> g, eta |-> now]

process_payment_webhook(d, event_type, payment_intent_id) ==
    LET k == FirstConf({j \in ConfIds(d) : d.confs[j].payment_intent_id = payment_intent_id})
    IN  IF k = None THEN [d EXCEPT !.res = "ignored"]
        ELSE IF event_type = "payment_intent.succeeded"
        THEN LET d1 == [d EXCEPT !.confs[k].payment_status = "paid",
                                 !.confs[k].confirmed = "true"]
                 g == d.confs[k].group_id
             IN  IF EvaluateRaises(d1, g) THEN Rollback(d, d)
                 ELSE IF can_proceed(d1, g)
                 THEN [d1 EXCEPT !.timers = @ \cup {FinalizeNow(g)}]
                 ELSE d1
        ELSE [d EXCEPT !.confs[k].payment_status = "failed",
                       !.notified = @ + 1]

AutoConfirmEnabled == TRUE
MinimumConfirmationRate == 75

AutoConfirmEligible(d) ==
    {g \in GroupIds(d) :
        /\ d.groups[g].status = "pending_confirmation"
        /\ AutoConfirmEnabled
        /\ d.groups[g].confirmation_deadline # None
        /\ d.groups[g].confirmation_deadline < now + 1}

RECURSIVE AutoConfirmLoop(_, _)
AutoConfirmLoop(d, gs) ==
    IF gs = <<>> THEN d
    ELSE LET g == Head(gs)
             total == Cardinality(ConfsOf(d, g))
             meets ==
                 /\ total > 0
                 /\ confirmed_count(d, g) * 100 >= MinimumConfirmationRate * total
                 /\ min_size_met(d, g)
             d1 == IF meets THEN finalize_group_formation(d, g, FALSE) ELSE d
         IN  AutoConfirmLoop([d1 EXCEPT !.res = "ok"], Tail(gs))

auto_confirm_groups(d) == AutoConfirmLoop(d, SetToSeq(AutoConfirmEligible(d)))

Expired(d) ==
    {k \in ConfIds(d) :
        /\ d.confs[k].confirmed = "null"
        /\ d.confs[k].expires_at < now
        /\ d.confs[k].status = "pending"}

RECURSIVE CleanupLoop(_, _)
CleanupLoop(d, ks) ==
    IF ks = <<>> THEN d
    ELSE LET k == Head(ks)
             g == d.confs[k].group_id
             d1 == [d EXCEPT !.confs[k].status = "expired",
                             !.interests = Release(@, {d.confs[k].interest_id})]
             active == Cardinality({j \in ConfsOf(d1, g) :
                           d1.confs[j].status \in {"confirmed", "pending"}})
             d2 == IF d1.groups[g].status = "pending_confirmation"
                      /\ active < d1.groups[g].min_size
                   THEN cancel_group(d1, g)
                   ELSE d1
         IN  CleanupLoop(d2, Tail(ks))

cleanup_expired_confirmations(d) == CleanupLoop(d, SetToSeq(Expired(d)))

(***************************************************************************)
(* Confirmation endpoint                                                   *)
(***************************************************************************)
\* the guards without the check for a reply already given
ReplyGuard_NoDuplicateCheck(d, g, token) ==
    IF ~(token \in ConfIds(d) /\ d.confs[token].group_id = g) THEN 404
    ELSE IF now > d.confs[token].expires_at THEN 410
    ELSE 200

\* HTTP status of the guards of POST /{group_id}/confirm/{token}; 200 when
\* the reply goes on to the workflow
ReplyGuard(d, g, token) ==
    IF ~(token \in ConfIds(d) /\ d.confs[token].group_id = g) THEN 404
    ELSE IF d.confs[token].confirmed # "null" THEN 400
    ELSE IF now > d.confs[token].expires_at THEN 410
    ELSE 200

\* GroupFormationWorkflow defines no confirm_member_participation: the call
\* raises AttributeError, the handler rolls back and answers 500
process_confirmation(d, g, token, confirmed) ==
    LET code == ReplyGuard(d, g, token)
    IN  IF code # 200 THEN [d EXCEPT !.res = ToString(code)]
        ELSE [Rollback(d, d) EXCEPT !.res = "500"]

(***************************************************************************)
(* Group optimizer                                                         *)
(***************************************************************************)
AdmitWindowDays == 3
MergeWindowDays == 5
SmallGroupSize == 6
MergeCandidateSize == 8
MaxMergeSize == 20

TotalCompatibility(S, T) ==
    SumOver(S \X T, [p \in S \X T |-> _calculate_compatibility(p[1], p[2])])

_optimize_group_membership(d, g) ==
    LET group == d.groups[g]
        open_interests ==
            {i \in Interests :
                /\ d.interests[i].status = "open"
                /\ date_from(i) >= group.date_from - AdmitWindowDays * HoursPerDay
                /\ date_from(i) <= group.date_to + AdmitWindowDays * HoursPerDay}
        existing_members == MembersOf(d, g)
        n == Cardinality(existing_members)
        compatible_interests ==
            {i \in open_interests :
                /\ TotalCompatibility({i}, existing_members) > 750 * n
                /\ group.current_size < group.max_size}
        k == Cardinality(compatible_interests)
    IN  IF open_interests = {} THEN d
        ELSE IF n = 0 THEN [d EXCEPT !.res = "raised"]
        ELSE IF k = 0 THEN d
        ELSE [d EXCEPT !.interests = [i \in Interests |->
                           IF i \in compatible_interests
                           THEN [status |-> "matched", group_id |-> g] ELSE @[i]],
                       !.groups[g].current_size = @ + k,
                       !.groups[g].final_price_per_person = _calculate_group_pricing(n + 1),
                       !.notified = @ + k]

\* total_compatibility / comparisons > threshold, 0.0 without comparisons
_calculate_group_merge_compatibility(members1, members2, threshold) ==
    /\ members1 # {} /\ members2 # {}
    /\ TotalCompatibility(members1, members2)
           > threshold * Cardinality(members1) * Cardinality(members2)

\* _merge_groups without the loop that moves the secondary members
_merge_groups_MembersStay(d, primary, secondary) ==
    LET all_members == MembersOf(d, primary) \cup MembersOf(d, secondary)
        n == Cardinality(all_members)
    IN  [d EXCEPT !.groups[primary].current_size = n,
                  !.groups[primary].date_from =
                      Min(@, d.groups[secondary].date_from),
                  !.groups[primary].date_to =
                      Max(@, d.groups[secondary].date_to),
                  !.groups[primary].final_price_per_person = _calculate_group_pricing(n),
                  !.groups[secondary].status = "merged",
                  !.notified = @ + n]

_merge_groups(d, primary, secondary) ==
    LET all_members == MembersOf(d, primary) \cup MembersOf(d, secondary)
        n == Cardinality(all_members)
    IN  [d EXCEPT !.interests = [i \in Interests |->
                      IF i \in MembersOf(d, secondary)
                      THEN [@[i] EXCEPT !.group_id = primary] ELSE @[i]],
                  !.groups[primary].current_size = n,
                  !.groups[primary].date_from =
                      Min(@, d.groups[secondary].date_from),
                  !.groups[primary].date_to =
                      Max(@, d.groups[secondary].date_to),
                  !.groups[primary].final_price_per_person = _calculate_group_pricing(n),
                  !.groups[secondary].status = "merged",
                  !.notified = @ + n]

_attempt_group_merge(d, g) ==
    LET group == d.groups[g]
        candidate_groups ==
            {c \in GroupIds(d) :
                /\ d.groups[c].status = "forming"
                /\ c # g
                /\ d.groups[c].current_size < MergeCandidateSize
                /\ d.groups[c].date_from >= group.date_from - MergeWindowDays * HoursPerDay
                /\ d.groups[c].date_from <= group.date_from + MergeWindowDays * HoursPerDay}
        mergeable ==
            {c \in candidate_groups :
                /\ group.current_size + d.groups[c].current_size <= MaxMergeSize
                /\ _calculate_group_merge_compatibility(MembersOf(d, g), MembersOf(d, c), 700)}
    IN  IF mergeable = {} THEN d ELSE _merge_groups(d, g, SetMin(mergeable))

RECURSIVE OptimizeLoop(_, _)
OptimizeLoop(d, gs) ==
    IF gs = <<>> THEN d
    ELSE LET g == Head(gs)
             d1 == _optimize_group_membership([d EXCEPT !.res = "ok"], g)
             d2 == IF d1.res = "ok" /\ d1.groups[g].current_size < SmallGroupSize
                   THEN _attempt_group_merge(d1, g)
                   ELSE d1
         IN  OptimizeLoop(d2, Tail(gs))

optimize_existing_groups(d) ==
    LET forming_groups ==
            {g \in GroupIds(d) :
                /\ d.groups[g].status = "forming"
                /\ d.groups[g].current_size < d.groups[g].max_size}
    IN  [OptimizeLoop(d, SetToSeq(forming_groups)) EXCEPT !.res = "ok"]

(***************************************************************************)
(* Reminder task                                                           *)
(***************************************************************************)
send_group_reminder_notification(d, g) ==
    IF d.groups[g].status # "forming" THEN [d EXCEPT !.res = "skipped"]
    ELSE [d EXCEPT !.notified = @ + Cardinality(MembersOf(d, g))]

(***************************************************************************)
(* State machine                                                           *)
(***************************************************************************)
InterestStatusInputs == {"expired", "converted"}

\* no sweep is between its query and its writes
NoRun ==
    [active |-> FALSE, op |-> "none", ks |-> <<>>, interests |-> <<>>,
     groups |-> <<>>, confs |-> <<>>, during |-> <<>>]

Init ==
    /\ interests = [i \in Interests |-> [status |-> "open", group_id |-> None]]
    /\ groups = <<>>
    /\ confs = <<>>
    /\ timers = {}
    /\ now = 0
    /\ max_discount \in DiscountCaps
    /\ calls = [admin |-> 0, reply |-> 0]
    /\ lastOp = [op |-> "init", g |-> 0, res |-> "ok", notified |-> 0, refunds |-> 0]
    /\ running = NoRun

\* a call or a job that leaves the store as it found it
Changes(d) ==
    d.interests # interests \/ d.groups # groups \/ d.confs # confs \/ d.timers # timers

\* the session d is committed (or was rolled back to the last commit); the
\* budgets bound the calls that change the store
Budget(kind) ==
    CASE kind = "admin" -> MaxAdminCalls
      [] kind = "reply" -> MaxReplies
      [] kind = "accept" -> MaxAccepts
      [] OTHER -> 0

Counter(kind) == IF kind = "admin" THEN "admin" ELSE "reply"

CommitStore(d, op, g, kind) ==
    /\ (kind \in {"admin", "reply", "accept"} /\ Changes(d)) => calls[Counter(kind)] < Budget(kind)
    /\ calls' = IF kind \in {"admin", "reply", "accept"} /\ Changes(d)
                THEN [calls EXCEPT ![Counter(kind)] = @ + 1] ELSE calls
    /\ interests' = d.interests
    /\ groups' = d.groups
    /\ confs' = d.confs
    /\ timers' = d.timers
    /\ lastOp' = [op |-> op, g |-> g, res |-> d.res,
                  notified |-> d.notified, refunds |-> d.refunds]
    /\ UNCHANGED <<now, max_discount>>

\* a transaction that reads and writes at once
Commit(d, op, g, kind) ==
    /\ CommitStore(d, op, g, kind)
    /\ UNCHANGED running

Created == {i \in Interests : interests[i].status # "absent"}

CreateInterest ==
    /\ Created # Interests
    /\ Commit(create_interest(Session, SetMin(Interests \ Created)), "create_interest", 0, "user")

UpdateInterestStatus ==
    \E i \in Created, s \in InterestStatusInputs :
        Commit(update_interest_status(Session, i, s), "update_interest_status", 0, "admin")

ClusterInterests ==
    /\ Len(groups) + Len(Clusters(Session)) <= MaxGroups
    /\ Changes(cluster_interests(Session))
    /\ Commit(cluster_interests(Session), "cluster_interests", 0, "job")

OptimizeExistingGroups ==
    /\ Changes(optimize_existing_groups(Session))
    /\ Commit(optimize_existing_groups(Session), "optimize_existing_groups", 0, "job")

\* update_group with a confirmation_deadline of now + one of the windows
UpdateGroupTo(windows) ==
    \E g \in GroupIds(Session), w \in windows :
        /\ now + ConfirmationWindow <= MaxTime
        /\ Commit(update_group(Session, g, now + w), "update_group", g, "admin")

UpdateGroup == UpdateGroupTo({ConfirmationWindow})

MinSizeInputs == {3}

\* the admin lowers the min_size of a group that is still forming
LowerMinSize ==
    \E g \in GroupIds(Session), n \in MinSizeInputs :
        /\ groups[g].status = "forming"
        /\ Commit(update_group_min_size(Session, g, n), "update_group", g, "admin")

\* the deadline of the groups made by the clustering simulation: now + 3 days
SetEarlyDeadline == UpdateGroupTo({SimulatedDeadlineDays * HoursPerDay})

InitiateGroupFormation ==
    \E g \in GroupIds(Session) :
        /\ Len(confs) + Cardinality(MembersOf(Session, g)) <= MaxConfs
        /\ now + ConfirmationWindow <= MaxTime
        /\ Commit(initiate_group_formation(Session, g), "initiate_group_formation", g, "job")

MemberConfirmationCall(inputs, kind) ==
    \E g \in GroupIds(Session) : \E i \in MembersOf(Session, g), input \in inputs :
        LET intent == IF input[2] = "none" THEN None
                      ELSE FirstConf({j \in ConfsOf(Session, g) : confs[j].interest_id = i})
        IN  Commit(process_member_confirmation(Session, g, i, input[1], intent,
                                               input[2] = "paid"),
                   "process_member_confirmation", g, kind)

ProcessMemberConfirmation ==
    MemberConfirmationCall({<<TRUE, "none">>, <<TRUE, "paid">>, <<TRUE, "failed">>,
                            <<FALSE, "none">>}, "reply")

\* every member accepts
AcceptParticipation ==
    MemberConfirmationCall({<<TRUE, "none">>, <<TRUE, "paid">>}, "accept")

ProcessConfirmation ==
    \E g \in GroupIds(Session), token \in 0..Len(confs), confirmed \in BOOLEAN :
        Commit(process_confirmation(Session, g, token, confirmed), "process_confirmation", g, "reply")

ForceFinalizeGroup ==
    \E g \in GroupIds(Session) :
        Commit(finalize_group_formation(Session, g, TRUE), "force_finalize_group", g, "admin")

PaymentWebhook ==
    \E k \in ConfIds(Session),
       event_type \in {"payment_intent.succeeded", "payment_intent.payment_failed"} :
        Commit(process_payment_webhook(Session, event_type, k), "process_payment_webhook",
               confs[k].group_id, "reply")

AutoConfirmGroups ==
    /\ Changes(auto_confirm_groups(Session))
    /\ Commit(auto_confirm_groups(Session), "auto_confirm_groups", 0, "job")

CleanupExpiredConfirmations ==
    /\ Changes(cleanup_expired_confirmations(Session))
    /\ Commit(cleanup_expired_confirmations(Session), "cleanup_expired_confirmations", 0, "job")

ConfirmGroup ==
    \E g \in GroupIds(Session) : Commit(confirm_group(Session, g), "confirm_group", g, "admin")

CancelGroup ==
    \E g \in GroupIds(Session) : Commit(cancel_group(Session, g), "cancel_group", g, "admin")

AddInterestToGroup ==
    \E g \in GroupIds(Session), i \in Created :
        Commit(add_interest_to_group(Session, g, i), "add_interest_to_group", g, "admin")

RemoveInterestFromGroup ==
    \E g \in GroupIds(Session), i \in Created :
        Commit(remove_interest_from_group(Session, g, i), "remove_interest_from_group", g, "admin")

\* a scheduled task runs once, not before its eta
Due(task) == {t \in timers : t.task = task /\ now >= t.eta}
Taken(t) == [Session EXCEPT !.timers = @ \ {t}]

ReminderTimer ==
    \E t \in Due("send_group_reminder_notification") :
        Commit(send_group_reminder_notification(Taken(t), t.g),
               "send_group_reminder_notification", t.g, "job")

DeadlineCheckTimer ==
    \E t \in Due("check_group_confirmation_deadline") :
        Commit(check_group_confirmation_deadline(Taken(t), t.g),
               "check_group_confirmation_deadline", t.g, "job")

FinalizeTimer ==
    \E t \in Due("finalize_group_formation") :
        Commit(finalize_group_formation(Taken(t), t.g, FALSE),
               "finalize_group_formation", t.g, "job")

\* the instants at which some guard of the program changes its value
TimePoints ==
    UNION {{groups[g].confirmation_deadline - ReminderLeadDays * HoursPerDay,
            groups[g].confirmation_deadline,
            groups[g].confirmation_deadline + DeadlineCheckDelayHours,
            groups[g].confirmation_deadline + AutoFinalizeDelayHours} :
           g \in {h \in GroupIds(Session) : groups[h].confirmation_deadline # None}}
    \cup {confs[k].expires_at + 1 : k \in ConfIds(Session)}
    \cup {t.eta : t \in timers}

\* the workers run a task when its eta is reached: the clock does not pass a
\* task that is due
Tick ==
    /\ \A t \in timers : t.eta > now
    /\ \E t \in TimePoints : t > now /\ t <= MaxTime
    /\ now' = SetMin({t \in TimePoints : t > now})
    /\ lastOp' = [op |-> "tick", g |-> 0, res |-> "ok", notified |-> 0, refunds |-> 0]
    /\ UNCHANGED <<interests, groups, confs, timers, max_discount, calls, running>>

\* the confirmation workflow over the interests on file
Next ==
    \/ ClusterInterests
    \/ UpdateGroup
    \/ InitiateGroupFormation
    \/ ProcessMemberConfirmation
    \/ ProcessConfirmation
    \/ ForceFinalizeGroup
    \/ PaymentWebhook
    \/ CleanupExpiredConfirmations
    \/ ConfirmGroup
    \/ CancelGroup
    \/ ReminderTimer
    \/ DeadlineCheckTimer
    \/ FinalizeTimer
    \/ Tick

Spec == Init /\ [][Next]_vars

\* the workflow when the members accept
QuorumNext ==
    \/ ClusterInterests
    \/ UpdateGroup
    \/ InitiateGroupFormation
    \/ AcceptParticipation
    \/ ForceFinalizeGroup
    \/ AutoConfirmGroups
    \/ CleanupExpiredConfirmations
    \/ ReminderTimer
    \/ DeadlineCheckTimer
    \/ FinalizeTimer
    \/ Tick

QuorumSpec == Init /\ [][QuorumNext]_vars

\* what the workers, the beat and the clock do without any call
ScheduledStep ==
    \/ ReminderTimer
    \/ DeadlineCheckTimer
    \/ FinalizeTimer
    \/ CleanupExpiredConfirmations
    \/ Tick

\* the workflow calls and every path that cancels a group
RefundNext ==
    \/ ClusterInterests
    \/ UpdateGroup
    \/ InitiateGroupFormation
    \/ ProcessMemberConfirmation
    \/ ForceFinalizeGroup
    \/ CancelGroup
    \/ CleanupExpiredConfirmations
    \/ ReminderTimer
    \/ DeadlineCheckTimer
    \/ FinalizeTimer
    \/ Tick

RefundSpec == Init /\ [][RefundNext]_vars

\* every member answers, by accepting or by declining
MemberReplies ==
    MemberConfirmationCall({<<TRUE, "none">>, <<FALSE, "none">>}, "accept")

\* the timers, the beat's sweeps and the clock
SweepStep ==
    \/ ScheduledStep
    \/ AutoConfirmGroups

\* the workflow of a group whose deadline was set before the initiation
DeadlineNext ==
    \/ ClusterInterests
    \/ SetEarlyDeadline
    \/ InitiateGroupFormation
    \/ MemberReplies
    \/ AutoConfirmGroups
    \/ CleanupExpiredConfirmations
    \/ ReminderTimer
    \/ DeadlineCheckTimer
    \/ FinalizeTimer
    \/ Tick

DeadlineSpec == Init /\ [][DeadlineNext]_vars

\* the auto-confirm sweep over groups whose min_size is below their size
SweepNext ==
    \/ ClusterInterests
    \/ LowerMinSize
    \/ UpdateGroup
    \/ InitiateGroupFormation
    \/ AcceptParticipation
    \/ AutoConfirmGroups
    \/ CleanupExpiredConfirmations
    \/ ReminderTimer
    \/ DeadlineCheckTimer
    \/ FinalizeTimer
    \/ Tick

SweepSpec == Init /\ [][SweepNext]_vars

\* cleanup_expired_confirmations runs its query: the rows it has loaded
BeginCleanup ==
    /\ ~running.active
    /\ Expired(Session) # {}
    /\ running' = [active |-> TRUE, op |-> "cleanup_expired_confirmations",
                   ks |-> SetToSeq(Expired(Session)),
                   interests |-> interests, groups |-> groups, confs |-> confs,
                   during |-> <<>>]
    /\ lastOp' = [op |-> "cleanup_query", g |-> 0, res |-> "ok", notified |-> 0, refunds |-> 0]
    /\ UNCHANGED <<interests, groups, confs, timers, now, max_discount, calls>>

\* a member reply committed by another worker, while a sweep may be running
ConcurrentReply ==
    \E g \in GroupIds(Session) : \E i \in MembersOf(Session, g), confirmed \in BOOLEAN :
        /\ Changes(process_member_confirmation(Session, g, i, confirmed, None, FALSE))
        /\ CommitStore(process_member_confirmation(Session, g, i, confirmed, None, FALSE),
                       "process_member_confirmation", g, "reply")
        /\ running' = IF running.active
                      THEN [running EXCEPT !.during = Append(@, <<g, i, confirmed>>)]
                      ELSE running

\* the sweep writes the rows it loaded, over what has been committed since,
\* and commits
EndCleanup ==
    /\ running.active
    /\ running.op = "cleanup_expired_confirmations"
    /\ CommitStore(CleanupLoop(Session, running.ks),
                   "cleanup_expired_confirmations", 0, "job")
    /\ running' = NoRun

\* the timers and the clock, while no sweep is running
IdleStep ==
    /\ ~running.active
    /\ \/ ReminderTimer
       \/ DeadlineCheckTimer
       \/ FinalizeTimer
       \/ Tick

\* member replies and the reaper on parallel workers
ConcurrentNext ==
    \/ ClusterInterests
    \/ UpdateGroup
    \/ InitiateGroupFormation
    \/ ConcurrentReply
    \/ BeginCleanup
    \/ EndCleanup
    \/ IdleStep

ConcurrentSpec == Init /\ [][ConcurrentNext]_vars

\* groups and their members, before any confirmation is asked for
InitMembership ==
    /\ interests = [i \in Interests |-> [status |-> "absent", group_id |-> None]]
    /\ groups = <<>>
    /\ confs = <<>>
    /\ timers = {}
    /\ now = 0
    /\ max_discount \in DiscountCaps
    /\ calls = [admin |-> 0, reply |-> 0]
    /\ lastOp = [op |-> "init", g |-> 0, res |-> "ok", notified |-> 0, refunds |-> 0]
    /\ running = NoRun

MembershipNext ==
    \/ CreateInterest
    \/ UpdateInterestStatus
    \/ ClusterInterests
    \/ OptimizeExistingGroups
    \/ ConfirmGroup
    \/ CancelGroup
    \/ AddInterestToGroup
    \/ RemoveInterestFromGroup

MembershipSpec == InitMembership /\ [][MembershipNext]_vars

\* a clustering run reads the open interests of the destination
BeginClustering ==
    /\ ~running.active
    /\ Clusters(Session) # <<>>
    /\ running' = [active |-> TRUE, op |-> "cluster_interests", ks |-> <<>>,
                   interests |-> interests, groups |-> <<>>, confs |-> <<>>,
                   during |-> <<>>]
    /\ lastOp' = [op |-> "cluster_query", g |-> 0, res |-> "ok", notified |-> 0, refunds |-> 0]
    /\ UNCHANGED <<interests, groups, confs, timers, now, max_discount, calls>>

\* the run makes the groups of the clusters it computed from what it read,
\* over what has been committed since, and commits
EndClustering ==
    /\ running.active
    /\ running.op = "cluster_interests"
    /\ LET clusters == Clusters([Session EXCEPT !.interests = running.interests])
       IN  /\ Len(groups) + Len(clusters) <= MaxOverlappingGroups
           /\ CommitStore(CreateGroups(Session, clusters), "cluster_interests", 0, "job")
    /\ running' = NoRun

\* the scheduled clustering run, a manually triggered run and the optimizer
\* on parallel workers
ClusteringNext ==
    \/ CreateInterest
    \/ ClusterInterests
    \/ OptimizeExistingGroups
    \/ CancelGroup
    \/ BeginClustering
    \/ EndClustering

ClusteringSpec == InitMembership /\ [][ClusteringNext]_vars

(***************************************************************************)
(* The Notifier port with its failures.                                    *)
(***************************************************************************)
\* send_notification delivers, returns an error result ({"success": False}),
\* or raises
NotifierOutcomes == {"sent", "error", "raises"}

\* the workflow drops the value send_notification returns and wraps no call
\* in a try: an exception reaches the except of the operation, which rolls
\* back and raises again.  The tasks scheduled by initiate come after the
\* notifications
initiate_group_formation_notifier(d, g, notifier) ==
    LET r == initiate_group_formation(d, g)
    IN  IF notifier = "raises" /\ r.notified > d.notified THEN Rollback(d, d) ELSE r

\* the refunds of a cancellation are issued before its notifications
finalize_group_formation_notifier(d, g, force, notifier) ==
    LET r == finalize_group_formation(d, g, force)
    IN  IF notifier = "raises" /\ r.notified > d.notified
        THEN Rollback(d, [r EXCEPT !.notified = d.notified])
        ELSE r

\* the task catches what the workflow raises again and rolls back
check_group_confirmation_deadline_notifier(d, g, notifier) ==
    LET r == check_group_confirmation_deadline(d, g)
    IN  IF notifier = "raises" /\ r.notified > d.notified
        THEN Rollback(d, [r EXCEPT !.notified = d.notified])
        ELSE r

InitiateNotifier ==
    \E g \in GroupIds(Session), notifier \in NotifierOutcomes :
        /\ Len(confs) + Cardinality(MembersOf(Session, g)) <= MaxConfs
        /\ now + ConfirmationWindow <= MaxTime
        /\ Commit(initiate_group_formation_notifier(Session, g, notifier),
                  "initiate_group_formation", g, "job")

ForceFinalizeNotifier ==
    \E g \in GroupIds(Session), notifier \in NotifierOutcomes :
        Commit(finalize_group_formation_notifier(Session, g, TRUE, notifier),
               "force_finalize_group", g, "admin")

DeadlineCheckNotifier ==
    \E t \in Due("check_group_confirmation_deadline"), notifier \in NotifierOutcomes :
        Commit(check_group_confirmation_deadline_notifier(Taken(t), t.g, notifier),
               "check_group_confirmation_deadline", t.g, "job")

FinalizeNotifier ==
    \E t \in Due("finalize_group_formation"), notifier \in NotifierOutcomes :
        Commit(finalize_group_formation_notifier(Taken(t), t.g, FALSE, notifier),
               "finalize_group_formation", t.g, "job")

NotifierNext ==
    \/ ClusterInterests
    \/ UpdateGroup
    \/ InitiateNotifier
    \/ MemberReplies
    \/ ForceFinalizeNotifier
    \/ ReminderTimer
    \/ DeadlineCheckNotifier
    \/ FinalizeNotifier
    \/ Tick

NotifierSpec == Init /\ [][NotifierNext]_vars

(***************************************************************************)
(* The store with its failures.                                            *)
(***************************************************************************)
\* where a statement on the session raises: nowhere, at the commit of the
\* operation (or before it), or at a query that follows the commit
StoreFaults == {"none", "at_commit", "after_commit"}

StoreError(d0, d) == [Rollback(d0, d) EXCEPT !.res = "store_error"]

\* one commit, the last statement on the session
initiate_group_formation_fault(d, g, fault) ==
    LET r == initiate_group_formation(d, g)
    IN  IF fault = "at_commit" /\ r.res # "raised" THEN StoreError(d, r) ELSE r

finalize_group_formation_fault(d, g, force, fault) ==
    LET r == finalize_group_formation(d, g, force)
    IN  IF fault = "at_commit" /\ r.res \in {"finalized_confirmed", "finalized_cancelled"}
        THEN StoreError(d, r)
        ELSE r

\* the commit is followed by the queries of _evaluate_group_status: the
\* rollback of the except finds nothing to undo
process_member_confirmation_fault(d, g, i, confirmed, fault) ==
    LET r == process_member_confirmation(d, g, i, confirmed, None, FALSE)
    IN  IF r.res = "raised" \/ fault = "none" THEN r
        ELSE IF fault = "at_commit" THEN StoreError(d, r)
        ELSE [r EXCEPT !.res = "store_error"]

\* the commit is followed by db.refresh(group)
cancel_group_fault(d, g, fault) ==
    LET r == cancel_group(d, g)
    IN  IF fault = "none" THEN r
        ELSE IF fault = "at_commit" THEN StoreError(d, r)
        ELSE [r EXCEPT !.res = "store_error"]

InitiateFault ==
    \E g \in GroupIds(Session), fault \in StoreFaults :
        /\ Len(confs) + Cardinality(MembersOf(Session, g)) <= MaxConfs
        /\ now + ConfirmationWindow <= MaxTime
        /\ Commit(initiate_group_formation_fault(Session, g, fault),
                  "initiate_group_formation", g, "job")

ReplyFault ==
    \E g \in GroupIds(Session) :
        \E i \in MembersOf(Session, g), confirmed \in BOOLEAN, fault \in StoreFaults :
            Commit(process_member_confirmation_fault(Session, g, i, confirmed, fault),
                   "process_member_confirmation", g, "accept")

ForceFinalizeFault ==
    \E g \in GroupIds(Session), fault \in StoreFaults :
        Commit(finalize_group_formation_fault(Session, g, TRUE, fault),
               "force_finalize_group", g, "admin")

CancelFault ==
    \E g \in GroupIds(Session), fault \in StoreFaults :
        Commit(cancel_group_fault(Session, g, fault), "cancel_group", g, "admin")

FaultNext ==
    \/ ClusterInterests
    \/ UpdateGroup
    \/ InitiateFault
    \/ ReplyFault
    \/ ForceFinalizeFault
    \/ CancelFault
    \/ ReminderTimer
    \/ DeadlineCheckTimer
    \/ FinalizeTimer
    \/ Tick

FaultSpec == Init /\ [][FaultNext]_vars

(***************************************************************************)
(* Several forming groups of one destination and the optimizer.            *)
(***************************************************************************)
ClusterSmallGroups ==
    /\ Len(groups) + Len(Clusters(Session)) <= MaxFormingGroups
    /\ Changes(cluster_interests(Session))
    /\ Commit(cluster_interests(Session), "cluster_interests", 0, "job")

MergeNext ==
    \/ CreateInterest
    \/ ClusterSmallGroups
    \/ RemoveInterestFromGroup
    \/ OptimizeExistingGroups

MergeSpec == InitMembership /\ [][MergeNext]_vars

(***************************************************************************)
(* The clustering job with a failure in the creation of a group.           *)
(***************************************************************************)
\* the group row of the cluster is added and flushed, its interests are not
\* yet updated
AddGroupRow(d, cluster) ==
    [d EXCEPT !.groups = Append(@, _create_group_from_cluster(d, cluster).groups[Len(@) + 1])]

\* the except of _create_group_from_cluster left out: the run goes on to its
\* commit with the rows written so far
cluster_interests_fault_NoRollback(d, failing) ==
    LET clusters == Clusters(d)
    IN  IF failing \in 1..Len(clusters)
        THEN [AddGroupRow(CreateGroups(d, SubSeq(clusters, 1, failing - 1)),
                          clusters[failing]) EXCEPT !.res = "raised"]
        ELSE cluster_interests(d)

\* failing: the cluster whose creation raises (0: none).  _create_group_from_cluster
\* rolls the session back and raises again; cluster_interests rolls back and
\* ends.  What the earlier clusters of the run have scheduled stays scheduled
cluster_interests_fault(d, failing) ==
    LET clusters == Clusters(d)
    IN  IF failing \in 1..Len(clusters)
        THEN Rollback(d, CreateGroups(d, SubSeq(clusters, 1, failing - 1)))
        ELSE cluster_interests(d)

ClusterFault ==
    /\ Clusters(Session) # <<>>
    /\ Len(groups) + Len(Clusters(Session)) <= MaxFormingGroups
    /\ \E failing \in 0..MaxFormingGroups :
           Commit(cluster_interests_fault(Session, failing), "cluster_interests", 0, "job")

ClusterFaultNext ==
    \/ CreateInterest
    \/ ClusterFault
    \/ RemoveInterestFromGroup
    \/ CancelGroup

ClusterFaultSpec == InitMembership /\ [][ClusterFaultNext]_vars

(***************************************************************************)
(* Finalization with members who have not answered.                        *)
(***************************************************************************)
\* one update_group call that sets the deadline and lowers min_size
UpdateGroupFields ==
    \E g \in GroupIds(Session), n \in MinSizeInputs :
        /\ groups[g].status = "forming"
        /\ now + ConfirmationWindow <= MaxTime
        /\ Commit(update_group_min_size(update_group(Session, g, now + ConfirmationWindow), g, n),
                  "update_group", g, "admin")

ReleaseNext ==
    \/ ClusterInterests
    \/ UpdateGroupFields
    \/ InitiateGroupFormation
    \/ MemberReplies
    \/ ForceFinalizeGroup
    \/ CleanupExpiredConfirmations
    \/ ReminderTimer
    \/ DeadlineCheckTimer
    \/ FinalizeTimer
    \/ Tick

ReleaseSpec == Init /\ [][ReleaseNext]_vars

(***************************************************************************)
(* The clustering configuration.                                           *)
(***************************************************************************)
\* CLUSTERING_CONFIG["min_group_size"]; the clustering job does not read it
ConfigMinGroupSize == 4

(***************************************************************************)
(* The compatibility scorer on the interests a traveler can submit.        *)
(***************************************************************************)
InterestRows ==
    [num_people : {1, 2, 4},
     date_from : {20 * HoursPerDay, 30 * HoursPerDay},
     date_to : {32 * HoursPerDay, 40 * HoursPerDay},
     budget_min : {None, 1000},
     budget_max : {None, 1000, 3000}]

\* the instants at which the scorer is called
ScoreTimes == {0, 12}

\* the scorer is about to be called on two rows at instant t
InitScorer ==
    /\ interests = [i \in Interests |-> [status |-> "absent", group_id |-> None]]
    /\ groups = <<>>
    /\ confs = <<>>
    /\ timers = {}
    /\ now = 0
    /\ max_discount \in DiscountCaps
    /\ calls = [admin |-> 0, reply |-> 0]
    /\ lastOp \in [op : {"call"}, interest1 : InterestRows, interest2 : InterestRows,
                   t : ScoreTimes]
    /\ running = NoRun

CalculateCompatibility ==
    /\ lastOp.op = "call"
    /\ lastOp' = [op |-> "_calculate_compatibility",
                  interest1 |-> lastOp.interest1, interest2 |-> lastOp.interest2,
                  res |-> compatibility(lastOp.interest1, lastOp.interest2, lastOp.t)]
    /\ UNCHANGED <<interests, groups, confs, timers, now, max_discount, calls, running>>

ScorerNext == CalculateCompatibility

ScorerSpec == InitScorer /\ [][ScorerNext]_vars

(***************************************************************************)
(* The tiered pricers on the prices, caps and member counts they can get.  *)
(***************************************************************************)
BasePrices == {1000, 25000, DestinationBasePrice}
DiscountCapInputs == {0, 3, 5, 12, 25, 30}
MemberCounts == 1..ClusterMaxGroupSize

\* a pricer is about to be called for a destination and a member count
InitPricer ==
    /\ interests = [i \in Interests |-> [status |-> "absent", group_id |-> None]]
    /\ groups = <<>>
    /\ confs = <<>>
    /\ timers = {}
    /\ now = 0
    /\ max_discount \in DiscountCapInputs
    /\ calls = [admin |-> 0, reply |-> 0]
    /\ lastOp \in [op : {"call"}, base_price : BasePrices, members_count : MemberCounts]
    /\ running = NoRun

CalculateGroupPricing ==
    /\ lastOp.op = "call"
    /\ lastOp' = [op |-> "_calculate_group_pricing", base_price |-> lastOp.base_price,
                  cap |-> max_discount, members_count |-> lastOp.members_count,
                  res |-> group_pricing(lastOp.base_price, max_discount, lastOp.members_count)]
    /\ UNCHANGED <<interests, groups, confs, timers, now, max_discount, calls, running>>

RecalculateGroupPricing ==
    /\ lastOp.op = "call"
    /\ lastOp' = [op |-> "_recalculate_group_pricing", base_price |-> lastOp.base_price,
                  cap |-> ConfigMaxDiscount, members_count |-> lastOp.members_count,
                  res |-> _recalculate_group_pricing(
                              [base_price |-> lastOp.base_price,
                               current_size |-> lastOp.members_count])]
    /\ UNCHANGED <<interests, groups, confs, timers, now, max_discount, calls, running>>

PricerNext == CalculateGroupPricing \/ RecalculateGroupPricing

PricerSpec == InitPricer /\ [][PricerNext]_vars

(***************************************************************************)
(* Admission into forming groups: the optimizer and the forced admit.      *)
(***************************************************************************)
\* the <<min_size, max_size>> an admin gives to a small group
SizeInputs == {<<2, 3>>}

\* one update_group call that sets min_size and max_size of a forming group,
\* max_size not below its size
UpdateGroupSizes ==
    \E g \in GroupIds(Session), sizes \in SizeInputs :
        /\ groups[g].status = "forming"
        /\ groups[g].current_size <= sizes[2]
        /\ groups[g].max_size > sizes[2]
        /\ Commit(update_group_max_size(update_group_min_size(Session, g, sizes[1]),
                                        g, sizes[2]),
                  "update_group", g, "admin")

\* PUT /groups/{group_id}/optimize: 400 unless the group is forming; an
\* exception of the admit pass is answered 500 after a rollback
optimize_specific_group(d, g) ==
    IF d.groups[g].status # "forming" THEN [d EXCEPT !.res = "400"]
    ELSE LET r == _optimize_group_membership(d, g)
         IN  IF r.res = "raised" THEN [Rollback(d, r) EXCEPT !.res = "500"] ELSE r

OptimizeSpecificGroup ==
    \E g \in GroupIds(Session) :
        /\ Changes(optimize_specific_group(Session, g))
        /\ Commit(optimize_specific_group(Session, g), "optimize_specific_group", g, "job")

AdmitNext ==
    \/ CreateInterest
    \/ ClusterSmallGroups
    \/ UpdateGroupSizes
    \/ RemoveInterestFromGroup
    \/ OptimizeExistingGroups
    \/ OptimizeSpecificGroup

AdmitSpec == InitMembership /\ [][AdmitNext]_vars

(***************************************************************************)
(* Initiation of groups of any size, triggered any number of times.        *)
(***************************************************************************)
InitiateNext ==
    \/ CreateInterest
    \/ ClusterInterests
    \/ UpdateGroup
    \/ InitiateGroupFormation
    \/ MemberReplies
    \/ ReminderTimer
    \/ DeadlineCheckTimer
    \/ FinalizeTimer
    \/ Tick

InitiateSpec == InitMembership /\ [][InitiateNext]_vars

(***************************************************************************)
(* Groups formed from clusters of up to MaxClusterSize interests: the      *)
(* table holds n open interests of one destination, cluster_interests      *)
(* groups them and the confirmation workflow runs on the group.            *)
(***************************************************************************)
MaxClusterSize == 6
ClusterSizes == 2..MaxClusterSize

InitLargeCluster ==
    /\ \E n \in ClusterSizes :
           interests = [i \in 1..n |-> [status |-> "open", group_id |-> None]]
    /\ groups = <<>>
    /\ confs = <<>>
    /\ timers = {}
    /\ now = 0
    /\ max_discount \in DiscountCaps
    /\ calls = [admin |-> 0, reply |-> 0]
    /\ lastOp = [op |-> "init", g |-> 0, res |-> "ok", notified |-> 0, refunds |-> 0]
    /\ running = NoRun

InitiateLargeGroup ==
    \E g \in GroupIds(Session) :
        /\ confs = <<>>
        /\ now + ConfirmationWindow <= MaxTime
        /\ Commit(initiate_group_formation(Session, g), "initiate_group_formation", g, "job")

\* every member answers its confirmation request at most once
LargeGroupReplies ==
    \E g \in GroupIds(Session) : \E i \in MembersOf(Session, g), confirmed \in BOOLEAN :
        /\ \E k \in ConfsOf(Session, g) :
               confs[k].interest_id = i /\ confs[k].confirmed = "null"
        /\ Commit(process_member_confirmation(Session, g, i, confirmed, None, FALSE),
                  "process_member_confirmation", g, "user")

LargeClusterNext ==
    \/ ClusterInterests
    \/ UpdateGroup
    \/ InitiateLargeGroup
    \/ LargeGroupReplies
    \/ ReminderTimer
    \/ DeadlineCheckTimer
    \/ FinalizeTimer
    \/ CleanupExpiredConfirmations
    \/ Tick

LargeClusterSpec == InitLargeCluster /\ [][LargeClusterNext]_vars

(***************************************************************************)
(* The notification tasks of a clustering run.  _create_group_from_cluster *)
(* hands them to the broker while the run's transaction is still open; a   *)
(* worker executes them against the committed store.                       *)
(***************************************************************************)
FollowUpHours == 24

_schedule_group_notifications(d, group_id, interest_ids) ==
    [d EXCEPT !.timers = @ \cup
        {[task |-> "send_group_formation_notification", g |-> group_id,
          interest_ids |-> interest_ids, eta |-> now],
         [task |-> "send_group_reminder_notification", g |-> group_id,
          eta |-> now + FollowUpHours]}]

\* the rows of _create_group_from_cluster in the run's session and the tasks
\* it schedules; the notifications are sent by the tasks, not by the run
_create_group_from_cluster_scheduling(d, cluster) ==
    LET d1 == _create_group_from_cluster(d, cluster)
    IN  _schedule_group_notifications([d1 EXCEPT !.notified = d.notified],
                                      Len(d1.groups), cluster)

RECURSIVE CreateGroupsScheduling(_, _)
CreateGroupsScheduling(d, clusters) ==
    IF clusters = <<>> THEN d
    ELSE CreateGroupsScheduling(_create_group_from_cluster_scheduling(d, Head(clusters)),
                                Tail(clusters))

\* the task queries the group and the interests in a session of its own
send_group_formation_notification(d, group_id, interest_ids) ==
    IF group_id \notin GroupIds(d) THEN [d EXCEPT !.res = "group_not_found"]
    ELSE [d EXCEPT !.notified = @ + Cardinality(interest_ids \cap DOMAIN d.interests)]

send_group_reminder_notification_task(d, group_id) ==
    IF group_id \notin GroupIds(d) THEN [d EXCEPT !.res = "skipped"]
    ELSE send_group_reminder_notification(d, group_id)

\* cluster_interests up to its commit: the groups are flushed in the run's
\* session, their tasks are with the broker
ClusterInterestsFlush ==
    /\ ~running.active
    /\ Clusters(Session) # <<>>
    /\ Len(groups) + Len(Clusters(Session)) <= MaxGroups
    /\ LET d == CreateGroupsScheduling(Session, Clusters(Session))
       IN  /\ running' = [NoRun EXCEPT !.active = TRUE, !.op = "cluster_interests",
                                       !.ks = Clusters(Session),
                                       !.interests = d.interests, !.groups = d.groups]
           /\ timers' = d.timers
    /\ lastOp' = [op |-> "cluster_flush", g |-> 0, res |-> "ok", notified |-> 0, refunds |-> 0]
    /\ UNCHANGED <<interests, groups, confs, now, max_discount, calls>>

\* db.commit() of cluster_interests, or its except branch (db.rollback())
ClusterInterestsEnd ==
    /\ running.active
    /\ running.op = "cluster_interests"
    /\ \E outcome \in {"commit", "raise"} :
           CommitStore(IF outcome = "commit"
                       THEN [CreateGroups(Session, running.ks) EXCEPT !.notified = 0]
                       ELSE Rollback(Session, Session),
                       "cluster_interests", 0, "job")
    /\ running' = NoRun

SendGroupFormationNotification ==
    \E t \in Due("send_group_formation_notification") :
        Commit(send_group_formation_notification(Taken(t), t.g, t.interest_ids),
               "send_group_formation_notification", t.g, "job")

SendGroupReminderNotification ==
    \E t \in Due("send_group_reminder_notification") :
        Commit(send_group_reminder_notification_task(Taken(t), t.g),
               "send_group_reminder_notification", t.g, "job")

DispatchNext ==
    \/ CreateInterest
    \/ ClusterInterestsFlush
    \/ ClusterInterestsEnd
    \/ SendGroupFormationNotification
    \/ SendGroupReminderNotification
    \/ Tick

DispatchSpec == InitMembership /\ [][DispatchNext]_vars

(***************************************************************************)
(* Properties                                                              *)
(***************************************************************************)
LinkedStatuses == {"matched", "confirmed", "converted"}
CancelledStatuses == {"cancelled", "cancelled_insufficient_members"}

\* C1: in every reachable state an interest has a group_id exactly when its
\* status is matched, confirmed or converted
C1_GroupIdIffLinkedStatus ==
    \A i \in Interests :
        (interests[i].group_id # None) <=> (interests[i].status \in LinkedStatuses)

\* C2: every matched, confirmed or converted interest names an existing group
\* that is not cancelled, and no interest points at a cancelled group
C2_LinkedInterestsNameLiveGroup ==
    /\ \A i \in Interests :
           interests[i].status \in LinkedStatuses =>
               /\ interests[i].group_id \in GroupIds(Session)
               /\ groups[interests[i].group_id].status \notin CancelledStatuses
    /\ \A g \in GroupIds(Session) :
           groups[g].status \in CancelledStatuses => MembersOf(Session, g) = {}

GroupStatuses ==
    {"forming", "pending_confirmation", "confirmed", "full", "cancelled", "merged"}

LifecycleEdges ==
    {<<"forming", "pending_confirmation">>, <<"pending_confirmation", "confirmed">>,
     <<"pending_confirmation", "cancelled">>, <<"forming", "full">>,
     <<"forming", "cancelled">>, <<"full", "cancelled">>, <<"forming", "merged">>}

\* C3: a group's status is always one of the six lifecycle statuses, it changes
\* only along the lifecycle edges, and confirmed, cancelled and merged are final
C3_GroupLifecycle ==
    /\ [](\A g \in GroupIds(Session) : groups[g].status \in GroupStatuses)
    /\ [][\A g \in GroupIds(Session) :
              groups'[g].status # groups[g].status =>
                  <<groups[g].status, groups'[g].status>> \in LifecycleEdges]_vars

\* C4: initiating the workflow on a forming group with members and no deadline
\* succeeds: the group is pending_confirmation, its deadline is now + the
\* confirmation window, and the three timers are set from that deadline
C4_InitiationArmsTimers ==
    [][(/\ lastOp'.op = "initiate_group_formation"
        /\ groups[lastOp'.g].status = "forming"
        /\ MembersOf(Session, lastOp'.g) # {}
        /\ groups[lastOp'.g].confirmation_deadline = None)
       => LET g == lastOp'.g
              deadline == now + ConfirmationWindow
          IN  /\ lastOp'.res = "ok"
              /\ groups'[g].status = "pending_confirmation"
              /\ groups'[g].confirmation_deadline = deadline
              /\ [task |-> "send_group_reminder_notification", g |-> g,
                  eta |-> deadline - ReminderLeadDays * HoursPerDay] \in timers'
              /\ [task |-> "check_group_confirmation_deadline", g |-> g,
                  eta |-> deadline + DeadlineCheckDelayHours] \in timers'
              /\ [task |-> "finalize_group_formation", g |-> g,
                  eta |-> deadline + AutoFinalizeDelayHours] \in timers']_vars

SameStore(d, e) ==
    d.interests = e.interests /\ d.groups = e.groups /\ d.confs = e.confs

NoEffect(d) ==
    SameStore(d, Session) /\ d.timers = timers /\ d.notified = 0 /\ d.refunds = 0

C6_ConfirmedSetOnce ==
    [][\A k \in ConfIds(Session) :
          confs[k].confirmed # "null" => confs'[k].confirmed = confs[k].confirmed]_vars

\* C7: finalizing a group that is already confirmed or cancelled, with or
\* without force, changes nothing and sends no notification and no refund
C7_FinalizeIdempotent ==
    \A g \in GroupIds(Session), force \in BOOLEAN :
        groups[g].status \in {"confirmed"} \cup CancelledStatuses =>
            LET d == finalize_group_formation(Session, g, force)
            IN  SameStore(d, Session) /\ d.notified = 0 /\ d.refunds = 0

BecomesConfirmed(g) ==
    groups[g].status # "confirmed" /\ groups'[g].status = "confirmed"

\* C8: whenever a group becomes confirmed, the number c of its confirmations
\* with confirmed = true satisfies min_size <= c <= max_size
C8_ConfirmedWithinSizeBounds ==
    [][\A g \in GroupIds(Session) :
          BecomesConfirmed(g) =>
              LET c == Cardinality({k \in 1..Len(confs') :
                           confs'[k].group_id = g /\ confs'[k].confirmed = "true"})
              IN  groups'[g].min_size <= c /\ c <= groups'[g].max_size]_vars

\* C9: when a group becomes confirmed with c confirmed members its
\* final_price_per_person is base_price * (1 - min(tier(c), destination cap))
C9_ConfirmedPriceFollowsTier ==
    [][\A g \in GroupIds(Session) :
          BecomesConfirmed(g) =>
              LET c == Cardinality({k \in 1..Len(confs') :
                           confs'[k].group_id = g /\ confs'[k].confirmed = "true"})
                  rate == Min(TierRate(c), max_discount)
              IN  groups'[g].final_price_per_person =
                      groups'[g].base_price - (groups'[g].base_price * rate) \div 100]_vars

\* C10: once no task is scheduled and no scheduled step is left to take,
\* every confirmation of a cancelled group that was paid has been refunded
\* (the code keeps no flag for manual intervention)
C10_RefundTotality ==
    (timers = {} /\ ~ENABLED ScheduledStep) =>
        \A k \in ConfIds(Session) :
            groups[confs[k].group_id].status \in CancelledStatuses =>
                confs[k].payment_status # "paid"

\* no timer is left, no sweep has anything to do and the clock has passed
\* every instant at which a guard changes
Quiescent ==
    /\ timers = {}
    /\ \A t \in TimePoints : t <= now
    /\ ~ENABLED SweepStep

\* C11: with the deadline timers and the periodic sweeps run to the end, no
\* group is left in pending_confirmation after its deadline: it is confirmed
\* or cancelled
C11_PendingGroupLeaves ==
    \A g \in GroupIds(Session) :
        (/\ ConfsOf(Session, g) # {}
         /\ now > groups[g].confirmation_deadline
         /\ Quiescent)
        => groups[g].status \in {"confirmed"} \cup CancelledStatuses

\* the conditions on which the sweep is to confirm a group
MeetsAutoConfirm(g) ==
    /\ AutoConfirmEnabled
    /\ confirmed_count(Session, g) >= groups[g].min_size
    /\ confirmed_count(Session, g) * 100
           >= MinimumConfirmationRate * Cardinality(ConfsOf(Session, g))

\* C12: a pending_confirmation group the auto-confirm sweep evaluates, with
\* auto_confirm_enabled, c >= min_size and c/total >= minimum_confirmation_rate,
\* is confirmed by the sweep, pending members and deadline notwithstanding;
\* a group that meets no confirm condition stays pending_confirmation
C12_SweepConfirmsOnRate ==
    \A g \in AutoConfirmEligible(Session) :
        LET after == auto_confirm_groups(Session).groups[g].status
        IN  /\ MeetsAutoConfirm(g) => after = "confirmed"
            /\ confirmed_count(Session, g) < groups[g].min_size
                   => after = "pending_confirmation"

\* the replies rs made one after the other
RECURSIVE ApplyReplies(_, _)
ApplyReplies(d, rs) ==
    IF rs = <<>> THEN d
    ELSE LET r == Head(rs)
         IN  ApplyReplies(process_member_confirmation(d, r[1], r[2], r[3], None, FALSE),
                          Tail(rs))

\* the stores that the sweep and the replies made during it reach when they
\* run one after the other, the sweep in any position
SerialOrders ==
    LET before == [Session EXCEPT !.interests = running.interests,
                                  !.groups = running.groups,
                                  !.confs = running.confs]
        n == Len(running.during)
    IN  {ApplyReplies(
             cleanup_expired_confirmations(
                 ApplyReplies(before, SubSeq(running.during, 1, k))),
             SubSeq(running.during, k + 1, n)) : k \in 0..n}

\* C13: when the reaper runs while member replies of the same group are
\* committed, the store it leaves is the store of some serial order of the
\* reaper and those replies
C13_SweepSerializable ==
    [][(running.active /\ ~running'.active) =>
          \E s \in SerialOrders :
              interests' = s.interests /\ groups' = s.groups /\ confs' = s.confs]_vars

\* C14: clustering jobs of one destination do not overlap: a clustering job
\* assigns to a group only interests that are open and in no group (or the
\* members of a group it merges away), and every group it creates has as
\* members exactly the interests it counts
C14_ClusteringRunsSerialized ==
    [][lastOp'.op \in {"cluster_interests", "optimize_existing_groups"} =>
          /\ \A i \in Interests :
                 (interests'[i].group_id # interests[i].group_id
                  /\ interests'[i].group_id # None) =>
                     \/ interests[i].status = "open" /\ interests[i].group_id = None
                     \/ /\ interests[i].group_id # None
                        /\ groups'[interests[i].group_id].status = "merged"
          /\ \A g \in (Len(groups) + 1)..Len(groups') :
                 groups'[g].current_size =
                     Cardinality({i \in Interests : interests'[i].group_id = g})]_vars

\* C15: whatever the Notifier does (deliver, error result, exception), an
\* initiation or a finalization leaves the store that the same operation
\* leaves when every notification is delivered
C15_NotifierFailureKeepsTransition ==
    [][/\ lastOp'.op = "initiate_group_formation" =>
              SameStore([Session EXCEPT !.interests = interests', !.groups = groups',
                                        !.confs = confs'],
                        initiate_group_formation(Session, lastOp'.g))
       /\ lastOp'.op = "force_finalize_group" =>
              SameStore([Session EXCEPT !.interests = interests', !.groups = groups',
                                        !.confs = confs'],
                        finalize_group_formation(Session, lastOp'.g, TRUE))
       /\ lastOp'.op = "finalize_group_formation" =>
              SameStore([Session EXCEPT !.interests = interests', !.groups = groups',
                                        !.confs = confs'],
                        finalize_group_formation(Session, lastOp'.g, FALSE))
       /\ lastOp'.op = "check_group_confirmation_deadline" =>
              SameStore([Session EXCEPT !.interests = interests', !.groups = groups',
                                        !.confs = confs'],
                        check_group_confirmation_deadline(Session, lastOp'.g))]_vars

\* C16: an initiation, a member reply, a finalization or a cancellation that
\* fails on a store error leaves the store as it was before the operation
C16_StoreErrorRestoresStore ==
    [][lastOp'.res = "store_error" =>
          interests' = interests /\ groups' = groups /\ confs' = confs]_vars

\* C17: the payment_status of a confirmation becomes "paid" only in the
\* handling of a payment webhook; the processing of a reply never sets it
C17_PaidOnlyByWebhook ==
    [][\A k \in 1..Len(confs) :
          (k <= Len(confs') /\ confs[k].payment_status # "paid"
           /\ confs'[k].payment_status = "paid")
          => lastOp'.op = "process_payment_webhook"]_vars

MergedGroups == {g \in GroupIds(Session) : groups[g].status = "merged"}

\* the groups merged away by the step
NewlyMerged == {g \in GroupIds(Session) : groups[g].status # "merged" /\ groups'[g].status = "merged"}

\* C18: after a pass of the optimizer no interest names a group that the pass
\* merged away, the members of a merged-away group are together in one
\* surviving group, and the members of a surviving group are its members of
\* before, the members of the groups merged into it and the open interests
\* it admitted: no member is lost and none is counted twice
C18_MergeKeepsMembers ==
    [][lastOp'.op = "optimize_existing_groups" =>
          /\ \A b \in NewlyMerged :
                 /\ \A i \in Interests : interests'[i].group_id # b
                 /\ \E a \in GroupIds(Session) \ {b} :
                        /\ groups'[a].status = "forming"
                        /\ \A i \in Interests :
                               interests[i].group_id = b => interests'[i].group_id = a
          /\ \A a \in GroupIds(Session) \ NewlyMerged :
                 \A i \in Interests :
                     interests'[i].group_id = a <=>
                         \/ interests[i].group_id = a
                         \/ /\ interests[i].group_id \in NewlyMerged
                            /\ \E j \in Interests :
                                   interests[j].group_id = interests[i].group_id
                                   /\ interests'[j].group_id = a
                         \/ /\ interests[i].status = "open"
                            /\ interests'[i].status = "matched"
                            /\ interests'[i].group_id = a]_vars

\* two groups have been merged away and every interest is in the survivor
C18_TwoGroupsMerged ==
    /\ lastOp.op = "optimize_existing_groups"
    /\ Cardinality(MergedGroups) >= 2
    /\ \E a \in GroupIds(Session) :
           groups[a].status = "forming" /\ MembersOf(Session, a) = Interests

\* C19: after a run of the clustering job, for every cluster of the run
\* either its group row exists and every interest of the cluster is matched
\* to it, or no row was added for it and its interests are still open and in
\* no group
C19_GroupCreationAtomic ==
    [][lastOp'.op = "cluster_interests" =>
          /\ Len(groups') <= Len(groups) + Len(Clusters(Session))
          /\ \A k \in 1..Len(Clusters(Session)) :
                 LET g == Len(groups) + k
                 IN  IF g <= Len(groups')
                     THEN /\ groups'[g].current_size = Cardinality(Clusters(Session)[k])
                          /\ \A i \in Clusters(Session)[k] :
                                 interests'[i] = [status |-> "matched", group_id |-> g]
                     ELSE \A i \in Clusters(Session)[k] :
                              interests'[i] = [status |-> "open", group_id |-> None]]_vars

\* a run of the clustering job has failed: no group, the interests still open
C19_FailedRunLeavesInterestsOpen ==
    /\ lastOp.op = "cluster_interests"
    /\ lastOp.res = "raised"
    /\ groups = <<>>
    /\ Cardinality({i \in Interests : interests[i] = [status |-> "open", group_id |-> None]}) >= 2

\* C20: when a finalization makes a group confirmed, every interest that
\* still names the group has a confirmation of the group with confirmed =
\* true, and the interest of every member who declined or had not answered
\* is open and in no group
C20_ConfirmedGroupKeepsOnlyConfirmed ==
    [][\A g \in GroupIds(Session) :
          (/\ groups[g].status # "confirmed"
           /\ groups'[g].status = "confirmed"
           /\ lastOp'.op \in {"force_finalize_group", "finalize_group_formation",
                              "check_group_confirmation_deadline"})
          => /\ \A i \in Interests :
                    interests'[i].group_id = g =>
                        \E k \in 1..Len(confs') :
                            /\ confs'[k].group_id = g
                            /\ confs'[k].interest_id = i
                            /\ confs'[k].confirmed = "true"
             /\ \A k \in ConfsOf(Session, g) :
                    confs[k].confirmed # "true" =>
                        interests'[confs[k].interest_id] =
                            [status |-> "open", group_id |-> None]]_vars

\* the travelers of the interests of group g that are matched or confirmed
PartySize(g) ==
    SumOver({i \in Interests : /\ interests[i].group_id = g
                               /\ interests[i].status \in {"matched", "confirmed"}},
            [i \in Interests |-> num_people(i)])

\* C21: in every reachable state the current_size of a group that is forming
\* or pending_confirmation is the sum of num_people over its matched and
\* confirmed member interests
C21_CurrentSizeIsPartySum ==
    \A g \in GroupIds(Session) :
        groups[g].status \in {"forming", "pending_confirmation"} =>
            groups[g].current_size = PartySize(g)

\* C22: every group created by a run of the clustering job has at least the
\* configured minimum group size of interests as members
C22_CreatedGroupHasMinimumViableSize ==
    [][lastOp'.op = "cluster_interests" =>
          \A g \in (Len(groups) + 1)..Len(groups') :
              Cardinality({i \in Interests : interests'[i].group_id = g})
                  >= ConfigMinGroupSize]_vars

\* C23: the compatibility score of an interest with itself is 1 (1000
\* thousandths), with or without a budget range
C23_SelfCompatibilityIsOne ==
    (lastOp.op = "_calculate_compatibility" /\ lastOp.interest1 = lastOp.interest2)
        => lastOp.res = 1000

\* C24: for a base price B and a discount cap C the price per person that a
\* tiered pricer computes for N members is at most B and at most the price
\* it computes for any smaller member count
C24_PriceNonIncreasingInMembers ==
    /\ lastOp.op = "_calculate_group_pricing" =>
           /\ lastOp.res <= lastOp.base_price
           /\ \A n \in 1..lastOp.members_count :
                  lastOp.res <= group_pricing(lastOp.base_price, lastOp.cap, n)
    /\ lastOp.op = "_recalculate_group_pricing" =>
           /\ lastOp.res <= lastOp.base_price
           /\ \A n \in 1..lastOp.members_count :
                  lastOp.res <= _recalculate_group_pricing(
                                    [base_price |-> lastOp.base_price, current_size |-> n])

\* a group of the largest size has been priced below the base price
C24_LargestGroupDiscounted ==
    /\ lastOp.op = "_calculate_group_pricing"
    /\ lastOp.members_count = ClusterMaxGroupSize
    /\ lastOp.cap = 25
    /\ lastOp.res * 4 = lastOp.base_price * 3

\* C25: after a pass of the optimizer or a forced admit, every forming group
\* that was within its max_size before is within its max_size after
C25_OptimizerKeepsMaxSize ==
    [][lastOp'.op \in {"optimize_existing_groups", "optimize_specific_group"} =>
          \A g \in GroupIds(Session) :
              (/\ groups[g].current_size <= groups[g].max_size
               /\ groups'[g].status = "forming")
              => groups'[g].current_size <= groups'[g].max_size]_vars

\* the interests the step has admitted into group g
Admitted(g) ==
    {i \in Interests : interests[i].status = "open" /\ interests'[i].group_id = g}

\* C26: after an admit pass that adds at least one interest to a forming
\* group, the final_price_per_person of the group is the tiered price of its
\* member count after the pass: the members it had and all those admitted
C26_AdmitRepricesForAllMembers ==
    [][lastOp'.op = "optimize_specific_group" =>
          \A g \in GroupIds(Session) :
              Admitted(g) # {} =>
                  groups'[g].final_price_per_person =
                      _calculate_group_pricing(
                          Cardinality(MembersOf(Session, g)) + Cardinality(Admitted(g)))]_vars

\* C27: in every reachable state a group whose workflow has been initiated,
\* once or several times, has exactly one confirmation for each of its
\* member interests
C27_OneConfirmationPerMember ==
    \A g \in GroupIds(Session) :
        ConfsOf(Session, g) # {} =>
            \A i \in MembersOf(Session, g) :
                Cardinality({k \in ConfsOf(Session, g) : confs[k].interest_id = i}) = 1

\* C28: when the reminder timer of a group fires while the group is in
\* pending_confirmation, a reminder is sent to every member of the group
C28_ReminderSentToPendingGroup ==
    [][(/\ lastOp'.op = "send_group_reminder_notification"
        /\ groups[lastOp'.g].status = "pending_confirmation"
        /\ MembersOf(Session, lastOp'.g) # {})
       => lastOp'.notified = Cardinality(MembersOf(Session, lastOp'.g))]_vars

\* C29: a group the clusterer created from more than 4 interests whose
\* confirmation round ends with at least the default minimum of 4 accepting
\* members (the others declined or let the request expire) ends confirmed,
\* and every created group has min_size <= max_size.
C29_LargeClusterConfirmsWithFourAccepts ==
    [][\A g \in GroupIds(Session) :
          /\ groups'[g].min_size <= groups'[g].max_size
          /\ (/\ Cardinality(ConfsOf(Session, g)) > ClusterMinGroupSize
              /\ groups[g].status = "pending_confirmation"
              /\ confirmed_count(Session, g) >= ClusterMinGroupSize
              /\ groups'[g].status # "pending_confirmation")
             => groups'[g].status = "confirmed"]_vars

\* C30: a group-formation notification task is executed only when its group
\* is committed in the store with the task's interests matched to it, and no
\* such task remains dispatched for a group whose clustering run rolled back.
C30_NotificationTaskSeesCommittedGroup ==
    [][/\ \A t \in timers \ timers' :
              t.task = "send_group_formation_notification"
              => /\ t.g \in GroupIds(Session)
                 /\ \A i \in t.interest_ids :
                        interests[i] = [status |-> "matched", group_id |-> t.g]
       /\ (lastOp'.op = "cluster_interests" /\ lastOp'.res = "raised")
          => \A t \in timers' :
                 t.task = "send_group_formation_notification"
                 => t.g \in 1..Len(groups')]_vars

====
